---- MODULE Spec2Model ----
(***************************************************************************)
(* Clue logic-game generator: the constraint engine of                     *)
(* python-scripts/solver.py and python-scripts/generate_clue_game.py.      *)
(*                                                                         *)
(* A game object (clue_models.ClueGame) holds the configuration lists, the *)
(* symbol table, the ground truth, the killer, the accepted propositions   *)
(* and the knowledge base.  The controller                                 *)
(* generate_game_until_unique_solution is modelled position by position:   *)
(* generate a candidate, ask the feasibility oracle, accept and count.     *)
(* The module-level random generator of Python is one shared variable.     *)
(***************************************************************************)
EXTENDS Integers, Sequences, FiniteSets, TLC

VARIABLES
    config,     \* per game: the GameConfig handed to create_game
    seed,       \* per game: the seed handed to create_game (NoSeed for None)
    game,       \* per game: the ClueGame object (NoGame before create_game)
    pc,         \* per game: position of the driver / controller
    max_attempts, \* per game: the argument max_attempts of the controller
    attempts,   \* per game: local `attempts` of the controller
    prop,       \* per game: local `prop`, the candidate of this attempt (or None)
    feasible,   \* per game: what is_feasible_with_proposition last returned (FALSE before)
    possible,   \* per game: the last (count, possible) of check_solution_count in the controller
    returned,   \* per game: the value the controller returned (None before)
    rng,        \* the state of the module-level generator `random`
    test_cases  \* the SerializedGame records the driver has built, in order

vars == <<config, seed, game, pc, max_attempts, attempts, prop, feasible, possible, returned, rng,
          test_cases>>

None == "None"

(***************************************************************************)
(* Bounds of the model.                                                    *)
(***************************************************************************)
\* the largest max_attempts handed to generate_game_until_unique_solution (default 1000)
MaxAttempts == 2

(***************************************************************************)
(* Boolean formulas (sympy Symbol, Not, And, Or, Implies) and              *)
(* sympy.logic.inference.satisfiable.                                      *)
(***************************************************************************)
Symbol(k) == [op |-> "Symbol", name |-> k, args |-> <<>>]

Not(a) == [op |-> "Not", name |-> "", args |-> <<a>>]

And(as) == [op |-> "And", name |-> "", args |-> as]

Or(as) == [op |-> "Or", name |-> "", args |-> as]

Implies(a, b) == [op |-> "Implies", name |-> "", args |-> <<a, b>>]

RECURSIVE Eval(_, _)
\* truth value of formula f when exactly the symbols named in T are true
Eval(f, T) ==
    CASE f.op = "Symbol"  -> f.name \in T
      [] f.op = "Not"     -> ~Eval(f.args[1], T)
      [] f.op = "And"     -> \A i \in 1..Len(f.args) : Eval(f.args[i], T)
      [] f.op = "Or"      -> \E i \in 1..Len(f.args) : Eval(f.args[i], T)
      [] f.op = "Implies" -> Eval(f.args[1], T) => Eval(f.args[2], T)

RECURSIVE AtomsOf(_)
\* the symbols occurring in f (expr.atoms())
AtomsOf(f) ==
    IF f.op = "Symbol" THEN {f.name}
    ELSE UNION {AtomsOf(f.args[i]) : i \in 1..Len(f.args)}

RECURSIVE Eval3(_, _, _)
\* value of f under the partial assignment T true, F false: 1 true, 0 false, 2 open
Eval3(f, T, F) ==
    CASE f.op = "Symbol"  -> IF f.name \in T THEN 1 ELSE IF f.name \in F THEN 0 ELSE 2
      [] f.op = "Not"     -> LET v == Eval3(f.args[1], T, F)
                             IN  IF v = 2 THEN 2 ELSE 1 - v
      [] f.op = "And"     -> LET vs == {Eval3(f.args[i], T, F) : i \in 1..Len(f.args)}
                             IN  IF 0 \in vs THEN 0 ELSE IF 2 \in vs THEN 2 ELSE 1
      [] f.op = "Or"      -> LET vs == {Eval3(f.args[i], T, F) : i \in 1..Len(f.args)}
                             IN  IF 1 \in vs THEN 1 ELSE IF 2 \in vs THEN 2 ELSE 0
      [] f.op = "Implies" -> LET a == Eval3(f.args[1], T, F)
                                 b == Eval3(f.args[2], T, F)
                             IN  IF a = 0 \/ b = 1 THEN 1
                                 ELSE IF a = 1 /\ b = 0 THEN 0 ELSE 2

RECURSIVE Search(_, _, _, _)
\* backtracking search (sympy's satisfiable runs DPLL): extend the partial assignment
\* over the open symbols until expr is decided
Search(expr, T, F, open) ==
    LET v == Eval3(expr, T, F)
    IN  IF v = 1 THEN TRUE
        ELSE IF v = 0 THEN FALSE
        ELSE LET a == CHOOSE x \in open : TRUE
             IN  \/ Search(expr, T \cup {a}, F, open \ {a})
                 \/ Search(expr, T, F \cup {a}, open \ {a})

\* satisfiable(expr) is not False: the search finds a model of expr
satisfiable(expr) == Search(expr, {}, {}, AtomsOf(expr))

(***************************************************************************)
(* solver.py                                                               *)
(***************************************************************************)
Range(s) == {s[i] : i \in 1..Len(s)}

\* f"{name}_{value}"
Key(name, value) == name \o "_" \o value

\* f"{name}_is_killer"
KillerKey(name) == name \o "_is_killer"

create_symbols(names, materials, institutions, foods, places, companies, technologies) ==
    LET values == Range(materials) \cup Range(institutions) \cup Range(foods)
                    \cup Range(places) \cup Range(companies) \cup Range(technologies)
        keys   == {Key(n, v) : n \in Range(names), v \in values}
                    \cup {KillerKey(n) : n \in Range(names)}
    IN  [k \in keys |-> Symbol(k)]

\* [x for x in s if P(x)], order kept
RECURSIVE Filter(_, _)
Filter(s, keep) ==
    IF s = <<>> THEN <<>>
    ELSE IF Head(s) \in keep THEN <<Head(s)>> \o Filter(Tail(s), keep)
    ELSE Filter(Tail(s), keep)

\* check_solution_count with the loop starting at the second name
check_solution_count_skip_first(g) ==
    IF g.knowledge_base = <<>>
    THEN [count |-> Len(g.names), possible |-> g.names]
    ELSE LET combined_knowledge == And(g.knowledge_base)
             ok == {n \in Range(Tail(g.names)) :
                      satisfiable(And(<<combined_knowledge, g.symbols_map[KillerKey(n)]>>))}
             possible_killers == Filter(g.names, ok)
         IN  [count |-> Len(possible_killers), possible |-> possible_killers]

\* check_solution_count collecting the possible killers in reverse order
check_solution_count_reversed(g) ==
    IF g.knowledge_base = <<>>
    THEN [count |-> Len(g.names), possible |-> g.names]
    ELSE LET combined_knowledge == And(g.knowledge_base)
             ok == {n \in Range(g.names) :
                      satisfiable(And(<<combined_knowledge, g.symbols_map[KillerKey(n)]>>))}
             possible_killers == Filter(g.names, ok)
             n == Len(possible_killers)
         IN  [count |-> n, possible |-> [k \in 1..n |-> possible_killers[n + 1 - k]]]

\* check_solution_count with the tested symbol conjoined onto combined_knowledge itself,
\* so that each name is tested together with the names before it
check_solution_count_accumulating(g) ==
    IF g.knowledge_base = <<>>
    THEN [count |-> Len(g.names), possible |-> g.names]
    ELSE LET combined_knowledge == And(g.knowledge_base)
             ok == {g.names[i] : i \in {j \in 1..Len(g.names) :
                      satisfiable(And(<<combined_knowledge>> \o
                          [k \in 1..j |-> g.symbols_map[KillerKey(g.names[k])]]))}}
             possible_killers == Filter(g.names, ok)
         IN  [count |-> Len(possible_killers), possible |-> possible_killers]

\* check_solution_count(game): (count, possible_killers)
check_solution_count(g) ==
    IF g.knowledge_base = <<>>
    THEN [count |-> Len(g.names), possible |-> g.names]
    ELSE LET combined_knowledge == And(g.knowledge_base)
             ok == {n \in Range(g.names) :
                      satisfiable(And(<<combined_knowledge, g.symbols_map[KillerKey(n)]>>))}
             possible_killers == Filter(g.names, ok)
         IN  [count |-> Len(possible_killers), possible |-> possible_killers]

\* is_feasible_with_proposition testing the knowledge base without the killer's symbol
is_feasible_without_killer(g, proposition_expr) ==
    LET test_kb  == g.knowledge_base \o <<proposition_expr>>
        combined == And(test_kb)
    IN  [ret |-> satisfiable(combined), game |-> g]

\* is_feasible_with_proposition appending to game.knowledge_base itself
is_feasible_in_place(g, proposition_expr) ==
    LET test_kb  == g.knowledge_base \o <<proposition_expr>>
        combined == And(test_kb)
        true_killer_sym == g.symbols_map[KillerKey(g.killer)]
        test_expr == And(<<combined, true_killer_sym>>)
    IN  [ret |-> satisfiable(test_expr), game |-> [g EXCEPT !.knowledge_base = test_kb]]

\* is_feasible_with_proposition testing the knowledge base as it is, the candidate
\* never added to test_kb
is_feasible_without_candidate(g, proposition_expr) ==
    LET test_kb  == g.knowledge_base
        combined == And(test_kb)
        true_killer_sym == g.symbols_map[KillerKey(g.killer)]
        test_expr == And(<<combined, true_killer_sym>>)
    IN  [ret |-> satisfiable(test_expr), game |-> g]

\* is_feasible_with_proposition(game, proposition_expr): the value returned and the
\* game object as the call leaves it (test_kb is a new list: the game is not touched)
is_feasible_with_proposition(g, proposition_expr) ==
    LET test_kb  == g.knowledge_base \o <<proposition_expr>>
        combined == And(test_kb)
        true_killer_sym == g.symbols_map[KillerKey(g.killer)]
        test_expr == And(<<combined, true_killer_sym>>)
    IN  [ret |-> satisfiable(test_expr), game |-> g]

\* the pairs (i, j), i < j, in the order of the two nested loops
RECURSIVE PairsFrom(_, _, _)
PairsFrom(names, i, j) ==
    IF i > Len(names) THEN <<>>
    ELSE IF j > Len(names) THEN PairsFrom(names, i + 1, i + 2)
    ELSE <<<<names[i], names[j]>>>> \o PairsFrom(names, i, j + 1)

\* setup_initial_constraints with And in place of Or in at_least_one
setup_initial_constraints_all(g) ==
    LET killer_symbols == [i \in 1..Len(g.names) |-> g.symbols_map[KillerKey(g.names[i])]]
        at_least_one   == And(killer_symbols)
        pairs          == PairsFrom(g.names, 1, 2)
        not_both       == [i \in 1..Len(pairs) |->
                             Not(And(<<g.symbols_map[KillerKey(pairs[i][1])],
                                       g.symbols_map[KillerKey(pairs[i][2])]>>))]
    IN  [g EXCEPT !.knowledge_base = (@ \o <<at_least_one>>) \o not_both]

\* setup_initial_constraints pairing each name with the next one only
setup_initial_constraints_adjacent(g) ==
    LET killer_symbols == [i \in 1..Len(g.names) |-> g.symbols_map[KillerKey(g.names[i])]]
        at_least_one   == Or(killer_symbols)
        not_both       == [i \in 1..(Len(g.names) - 1) |->
                             Not(And(<<g.symbols_map[KillerKey(g.names[i])],
                                       g.symbols_map[KillerKey(g.names[i + 1])]>>))]
    IN  [g EXCEPT !.knowledge_base = (@ \o <<at_least_one>>) \o not_both]

\* setup_initial_constraints(game): exactly one killer
setup_initial_constraints(g) ==
    LET killer_symbols == [i \in 1..Len(g.names) |-> g.symbols_map[KillerKey(g.names[i])]]
        at_least_one   == Or(killer_symbols)
        pairs          == PairsFrom(g.names, 1, 2)
        not_both       == [i \in 1..Len(pairs) |->
                             Not(And(<<g.symbols_map[KillerKey(pairs[i][1])],
                                       g.symbols_map[KillerKey(pairs[i][2])]>>))]
    IN  [g EXCEPT !.knowledge_base = (@ \o <<at_least_one>>) \o not_both]

(***************************************************************************)
(* The module-level generator `random` (import random): one state shared   *)
(* by every caller, set by random.seed and advanced by every draw.  The    *)
(* Mersenne Twister is abstracted to a small congruential generator: a     *)
(* draw is a deterministic function of the state.                          *)
(***************************************************************************)
\* number of generator states; a raw draw u stands for the fraction u / RngStates
RngStates == 0..100

\* random.seed(seed)
SeedState(s) == (s * 17 + 5) % 101

\* the state after one draw; the draw's value is the new state
RngNext(x) == (x * 3 + 7) % 101

RECURSIVE RngAt(_, _)
\* the state after k draws
RngAt(x, k) == IF k = 0 THEN x ELSE RngAt(RngNext(x), k - 1)

\* the raw values of the next k draws from state x
Draws(x, k) == [i \in 1..k |-> RngAt(x, i)]

\* random.choice(seq) for the raw draw u; the caller handles the empty seq (IndexError)
choice(seq, u) == seq[((u * Len(seq)) \div 101) + 1]

\* one raw draw for every index of a list of length n (a single one for n = 0,
\* where random.choice raises whatever the draw)
Us(n) == IF n = 0 THEN {0} ELSE {((i * 101) + n - 1) \div n : i \in 0..(n - 1)}

(***************************************************************************)
(* clue_models.py                                                          *)
(***************************************************************************)
PROP_PERSON_AND_ATTRIBUTE == "person_and_attribute"

PROP_PERSON_OR_PERSON == "person_or_person"

PROP_PERSON_ATTRIBUTE_IMPLIES_NOT_KILLER == "person_attribute_implies_not_killer"

PROP_COMPLEX_OR == "complex_or"

PROP_DIRECT_ELIMINATION == "direct_elimination"

\* PropositionData(prop_type=t) with every optional field at its default None
PropositionData(t) ==
    [prop_type |-> t, person |-> None, person1 |-> None, person2 |-> None,
     attr_category |-> None, attr1_cat |-> None, attr2_cat |-> None,
     value |-> None, val1 |-> None, val2 |-> None,
     mat1 |-> None, food2 |-> None, inst2 |-> None]

\* the object before create_game has built it
NoGame == [names |-> <<>>, technologies |-> <<>>, places |-> <<>>, companies |-> <<>>,
           institutions |-> <<>>, foods |-> <<>>, materials |-> <<>>,
           symbols_map |-> <<>>, ground_truth |-> <<>>, killer |-> None,
           propositions |-> <<>>, knowledge_base |-> <<>>]

(***************************************************************************)
(* generate_clue_game.py                                                   *)
(***************************************************************************)
\* the argument seed=None of create_game (integer seeds are naturals here)
NoSeed == 0 - 1

\* create_game(config, seed): the ClueGame returned
create_game(cfg) ==
    [names |-> cfg.names, technologies |-> cfg.technologies, places |-> cfg.places,
     companies |-> cfg.companies, institutions |-> cfg.institutions,
     foods |-> cfg.foods, materials |-> cfg.materials,
     symbols_map |-> create_symbols(cfg.names, cfg.materials, cfg.institutions,
                                    cfg.foods, cfg.places, cfg.companies, cfg.technologies),
     ground_truth |-> <<>>, killer |-> "", propositions |-> <<>>, knowledge_base |-> <<>>]

\* create_game never calling random.seed
create_game_rng_unseeded(x, s) == x

\* create_game: `if seed is not None: random.seed(seed)`
create_game_rng(x, s) == IF s # NoSeed THEN SeedState(s) ELSE x

\* the keyword arguments of PersonActivity(...) in evaluation order
ActivityFields == <<"technology", "place", "company", "institution", "food", "material">>

\* the list of the game each field of PersonActivity is drawn from
ActivityList(g, f) ==
    CASE f = "technology"  -> g.technologies
      [] f = "place"       -> g.places
      [] f = "company"     -> g.companies
      [] f = "institution" -> g.institutions
      [] f = "food"        -> g.foods
      [] f = "material"    -> g.materials

\* number of draws setup_scenario makes when nothing raises
SetupDraws(g) == (6 * Len(g.names)) + 1

\* setup_scenario(game) with the raw draws u (6 per name, then the killer's):
\* the game as the call leaves it, and whether random.choice raised IndexError
setup_scenario(g, u) ==
    LET n == Len(g.names)
        empty_list == \E f \in Range(ActivityFields) : ActivityList(g, f) = <<>>
    IN  IF n > 0 /\ empty_list
        THEN \* the first PersonActivity(...) raises before anything is stored
             [game |-> g, raised |-> TRUE]
        ELSE LET gt == [p \in Range(g.names) |->
                          LET i == CHOOSE j \in 1..n : g.names[j] = p
                          IN  [f \in Range(ActivityFields) |->
                                 LET k == CHOOSE j \in 1..6 : ActivityFields[j] = f
                                 IN  choice(ActivityList(g, f), u[(6 * (i - 1)) + k])]]
                 g1 == [g EXCEPT !.ground_truth = gt]
             IN  IF n = 0
                 THEN \* random.choice(game.names) raises on the empty list
                      [game |-> g1, raised |-> TRUE]
                 ELSE [game |-> setup_initial_constraints(
                                  [g1 EXCEPT !.killer = choice(g.names, u[(6 * n) + 1])]),
                       raised |-> FALSE]

\* random.choices([...five types...], weights=[40, 20, 20, 15, 5])[0] for the raw draw u
choices_prop_type(u) ==
    LET x == (u * 100) \div 101
    IN  IF x < 40 THEN PROP_PERSON_AND_ATTRIBUTE
        ELSE IF x < 60 THEN PROP_PERSON_OR_PERSON
        ELSE IF x < 80 THEN PROP_PERSON_ATTRIBUTE_IMPLIES_NOT_KILLER
        ELSE IF x < 95 THEN PROP_COMPLEX_OR
        ELSE PROP_DIRECT_ELIMINATION

\* the list person2 is drawn from without the filter on person1
others_unfiltered(g, person1) == g.names

\* [n for n in game.names if n != person1]
others(g, person1) == Filter(g.names, Range(g.names) \ {person1})

\* innocent_people without the filter on the killer
innocent_people_all(g) == g.names

\* innocent_people = [n for n in game.names if n != game.killer]
innocent_people(g) == Filter(g.names, Range(g.names) \ {g.killer})

\* innocent_suspects taken from all the names, without asking the suspect counter
innocent_suspects_uncounted(g) == Filter(g.names, Range(g.names) \ {g.killer})

\* innocent_suspects without the filter on the killer: every possible suspect
innocent_suspects_with_killer(g) == check_solution_count(g).possible

\* innocent_suspects = [n for n in possible_suspects if n != game.killer]
innocent_suspects(g) ==
    LET possible_suspects == check_solution_count(g).possible
    IN  Filter(possible_suspects, Range(possible_suspects) \ {g.killer})

Cats4 == <<"material", "institution", "food", "place">>

Cats3 == <<"material", "institution", "food">>

\* the value None where a formula is expected
NoExpr == [op |-> None, name |-> "", args |-> <<>>]

\* game.symbols_map.get(key)
SymGet(g, k) == IF k \in DOMAIN g.symbols_map THEN g.symbols_map[k] ELSE NoExpr

\* results of generate_proposition: a (proposition, prop_data) pair, None, or a raise;
\* draws is the number of raw draws the call consumed
GenProp(expr, data, d) == [out |-> [tag |-> "prop", expr |-> expr, data |-> data], draws |-> d]

\* the value None where a (proposition, prop_data) pair is expected
NoProp == [tag |-> None, expr |-> NoExpr, data |-> PropositionData(None)]

GenNone(d) == [out |-> NoProp, draws |-> d]

Raised == "IndexError"

GenRaise(d) == [out |-> [NoProp EXCEPT !.tag = Raised], draws |-> d]

\* the statement branch reading the value of the first person, whoever was chosen
gen_person_and_attribute_first_person(g, u) ==
    IF g.names = <<>> THEN GenRaise(2)
    ELSE
    LET person        == choice(g.names, u[2])
        attr_category == choice(Cats4, u[3])
        actual_value  == g.ground_truth[g.names[1]][attr_category]
        symbol_key    == Key(person, actual_value)
    IN  IF symbol_key \notin DOMAIN g.symbols_map THEN GenNone(3)
        ELSE GenProp(g.symbols_map[symbol_key],
                     [PropositionData(PROP_PERSON_AND_ATTRIBUTE) EXCEPT
                        !.person = person, !.attr_category = attr_category,
                        !.value = actual_value],
                     3)

gen_person_and_attribute(g, u) ==
    IF g.names = <<>> THEN GenRaise(2)
    ELSE
    LET person        == choice(g.names, u[2])
        attr_category == choice(Cats4, u[3])
        actual_value  == g.ground_truth[person][attr_category]
        symbol_key    == Key(person, actual_value)
    IN  IF symbol_key \notin DOMAIN g.symbols_map THEN GenNone(3)
        ELSE GenProp(g.symbols_map[symbol_key],
                     [PropositionData(PROP_PERSON_AND_ATTRIBUTE) EXCEPT
                        !.person = person, !.attr_category = attr_category,
                        !.value = actual_value],
                     3)

\* the disjunction branch building And(sym1, sym2) in place of Or(sym1, sym2)
gen_person_or_person_conjoined(g, u) ==
    IF g.names = <<>> THEN GenRaise(2)
    ELSE
    LET person1 == choice(g.names, u[2])
    IN  IF others(g, person1) = <<>> THEN GenRaise(3)
        ELSE
        LET person2   == choice(others(g, person1), u[3])
            attr1_cat == choice(Cats3, u[4])
            attr2_cat == choice(Cats3, u[5])
            val1 == g.ground_truth[person1][attr1_cat]
            val2 == g.ground_truth[person2][attr2_cat]
            sym1 == SymGet(g, Key(person1, val1))
            sym2 == SymGet(g, Key(person2, val2))
        IN  IF sym1 = NoExpr \/ sym2 = NoExpr THEN GenNone(5)
            ELSE GenProp(And(<<sym1, sym2>>),
                         [PropositionData(PROP_PERSON_OR_PERSON) EXCEPT
                            !.person1 = person1, !.person2 = person2,
                            !.attr1_cat = attr1_cat, !.attr2_cat = attr2_cat,
                            !.val1 = val1, !.val2 = val2],
                         5)

gen_person_or_person(g, u) ==
    IF g.names = <<>> THEN GenRaise(2)
    ELSE
    LET person1 == choice(g.names, u[2])
    IN  IF others(g, person1) = <<>> THEN GenRaise(3)
        ELSE
        LET person2   == choice(others(g, person1), u[3])
            attr1_cat == choice(Cats3, u[4])
            attr2_cat == choice(Cats3, u[5])
            val1 == g.ground_truth[person1][attr1_cat]
            val2 == g.ground_truth[person2][attr2_cat]
            sym1 == SymGet(g, Key(person1, val1))
            sym2 == SymGet(g, Key(person2, val2))
        IN  IF sym1 = NoExpr \/ sym2 = NoExpr THEN GenNone(5)
            ELSE GenProp(Or(<<sym1, sym2>>),
                         [PropositionData(PROP_PERSON_OR_PERSON) EXCEPT
                            !.person1 = person1, !.person2 = person2,
                            !.attr1_cat = attr1_cat, !.attr2_cat = attr2_cat,
                            !.val1 = val1, !.val2 = val2],
                         5)

\* the alibi branch with the arguments of Implies swapped
gen_person_attribute_implies_not_killer_swapped(g, u) ==
    IF innocent_people(g) = <<>> THEN GenNone(1)
    ELSE
    LET person   == choice(innocent_people(g), u[2])
        attr_cat == choice(Cats3, u[3])
        val      == g.ground_truth[person][attr_cat]
        person_attr_sym == SymGet(g, Key(person, val))
        killer_sym      == g.symbols_map[KillerKey(person)]
    IN  IF person_attr_sym = NoExpr THEN GenNone(3)
        ELSE GenProp(Implies(Not(killer_sym), person_attr_sym),
                     [PropositionData(PROP_PERSON_ATTRIBUTE_IMPLIES_NOT_KILLER) EXCEPT
                        !.person = person, !.attr_category = attr_cat, !.value = val],
                     3)

gen_person_attribute_implies_not_killer(g, u) ==
    IF innocent_people(g) = <<>> THEN GenNone(1)
    ELSE
    LET person   == choice(innocent_people(g), u[2])
        attr_cat == choice(Cats3, u[3])
        val      == g.ground_truth[person][attr_cat]
        person_attr_sym == SymGet(g, Key(person, val))
        killer_sym      == g.symbols_map[KillerKey(person)]
    IN  IF person_attr_sym = NoExpr THEN GenNone(3)
        ELSE GenProp(Implies(person_attr_sym, Not(killer_sym)),
                     [PropositionData(PROP_PERSON_ATTRIBUTE_IMPLIES_NOT_KILLER) EXCEPT
                        !.person = person, !.attr_category = attr_cat, !.value = val],
                     3)

gen_complex_or(g, u) ==
    IF g.names = <<>> THEN GenRaise(2)
    ELSE
    LET person1 == choice(g.names, u[2])
    IN  IF others(g, person1) = <<>> THEN GenRaise(3)
        ELSE
        LET person2 == choice(others(g, person1), u[3])
            mat1  == g.ground_truth[person1].material
            food2 == g.ground_truth[person2].food
            inst2 == g.ground_truth[person2].institution
            sym1      == SymGet(g, Key(person1, mat1))
            sym2_food == SymGet(g, Key(person2, food2))
            sym2_inst == SymGet(g, Key(person2, inst2))
        IN  IF sym1 = NoExpr \/ sym2_food = NoExpr \/ sym2_inst = NoExpr THEN GenNone(3)
            ELSE GenProp(Or(<<sym1, And(<<sym2_food, sym2_inst>>)>>),
                         [PropositionData(PROP_COMPLEX_OR) EXCEPT
                            !.person1 = person1, !.person2 = person2,
                            !.mat1 = mat1, !.food2 = food2, !.inst2 = inst2],
                         3)

\* the direct-elimination branch stating the activity without the implication
gen_direct_elimination_activity_only(g, u) ==
    IF innocent_suspects(g) = <<>> THEN GenNone(1)
    ELSE
    LET person   == choice(innocent_suspects(g), u[2])
        attr_cat == choice(Cats3, u[3])
        val      == g.ground_truth[person][attr_cat]
        person_attr_sym == SymGet(g, Key(person, val))
    IN  IF person_attr_sym = NoExpr THEN GenNone(3)
        ELSE GenProp(person_attr_sym,
                     [PropositionData(PROP_DIRECT_ELIMINATION) EXCEPT
                        !.person = person, !.attr_category = attr_cat, !.value = val],
                     3)

gen_direct_elimination(g, u) ==
    IF innocent_suspects(g) = <<>> THEN GenNone(1)
    ELSE
    LET person   == choice(innocent_suspects(g), u[2])
        attr_cat == choice(Cats3, u[3])
        val      == g.ground_truth[person][attr_cat]
        person_attr_sym == SymGet(g, Key(person, val))
        killer_sym      == g.symbols_map[KillerKey(person)]
    IN  IF person_attr_sym = NoExpr THEN GenNone(3)
        ELSE GenProp(And(<<person_attr_sym, Implies(person_attr_sym, Not(killer_sym))>>),
                     [PropositionData(PROP_DIRECT_ELIMINATION) EXCEPT
                        !.person = person, !.attr_category = attr_cat, !.value = val],
                     3)

\* generate_proposition(game) for the raw draws u: u[1] picks the type, u[2].. feed
\* the random.choice calls of the type's branch in order
generate_proposition(g, u) ==
    LET prop_type == choices_prop_type(u[1])
    IN  CASE prop_type = PROP_PERSON_AND_ATTRIBUTE -> gen_person_and_attribute(g, u)
          [] prop_type = PROP_PERSON_OR_PERSON -> gen_person_or_person(g, u)
          [] prop_type = PROP_PERSON_ATTRIBUTE_IMPLIES_NOT_KILLER ->
                gen_person_attribute_implies_not_killer(g, u)
          [] prop_type = PROP_COMPLEX_OR -> gen_complex_or(g, u)
          [] prop_type = PROP_DIRECT_ELIMINATION -> gen_direct_elimination(g, u)

(***************************************************************************)
(* Configurations handed to create_game (clue_models.GameConfig carries no *)
(* validator, so any lists can be given).                                  *)
(***************************************************************************)
\* two people, one value per category
CfgTwo ==
    [names |-> <<"Joe", "John">>, technologies |-> <<"Python">>, places |-> <<"China">>,
     companies |-> <<"Google">>, institutions |-> <<"government">>,
     foods |-> <<"pizza">>, materials |-> <<"wood">>]

\* two people, two materials: the ground truths differ and some symbols stay unused
CfgVaried == [CfgTwo EXCEPT !.materials = <<"wood", "metal">>]

\* a single person
CfgOne == [CfgTwo EXCEPT !.names = <<"Joe">>]

\* no person at all
CfgNoNames == [CfgTwo EXCEPT !.names = <<>>]

\* an empty attribute category
CfgNoFood == [CfgTwo EXCEPT !.foods = <<>>]

\* three people, one value per category
CfgThree == [CfgTwo EXCEPT !.names = <<"Joe", "John", "Bob">>]

\* the calls explored: a configuration and the max_attempts of the controller
Inputs ==
    {[config |-> c, max_attempts |-> MaxAttempts] : c \in {CfgTwo, CfgOne, CfgNoNames, CfgNoFood}}
      \cup {[config |-> CfgVaried, max_attempts |-> MaxAttempts - 1]}
      \cup {[config |-> CfgThree, max_attempts |-> MaxAttempts - 2]}

\* the valid configurations: at least 2 names, no empty category
ValidConfig(cfg) ==
    /\ Len(cfg.names) >= 2
    /\ \A f \in {"technologies", "places", "companies", "institutions", "foods", "materials"} :
         cfg[f] # <<>>

GameIds == {1, 2}

(***************************************************************************)
(* Raw draws that reach every outcome of the random calls of one step.     *)
(***************************************************************************)
\* the list the j-th draw of setup_scenario indexes
SetupList(g, j) ==
    IF j > 6 * Len(g.names) THEN g.names
    ELSE ActivityList(g, ActivityFields[((j - 1) % 6) + 1])

\* the draw sequences of length k whose j-th draw picks in SetupList(g, j)
RECURSIVE SetupPrefixes(_, _)
SetupPrefixes(g, k) ==
    IF k = 0 THEN {<<>>}
    ELSE {Append(u, x) : u \in SetupPrefixes(g, k - 1), x \in Us(Len(SetupList(g, k)))}

SetupChoices(g) == SetupPrefixes(g, SetupDraws(g))

GenerateChoices(g) ==
    LET n == Len(g.names)
        second(u1) == IF n = 0 THEN 0 ELSE Len(others(g, choice(g.names, u1)))
    IN       {<<0, u1, u2, 0, 0>> : u1 \in Us(n), u2 \in Us(4)}
        \cup UNION {{<<41, u1, u2, u3, u4>> : u2 \in Us(second(u1)), u3 \in Us(3), u4 \in Us(3)}
                      : u1 \in Us(n)}
        \cup {<<61, u1, u2, 0, 0>> : u1 \in Us(Len(innocent_people(g))), u2 \in Us(3)}
        \cup UNION {{<<81, u1, u2, 0, 0>> : u2 \in Us(second(u1))} : u1 \in Us(n)}
        \cup {<<96, u1, u2, 0, 0>> : u1 \in Us(Len(innocent_suspects(g))), u2 \in Us(3)}

(***************************************************************************)
(* Actions: one game's driver (generate_test_case) and controller          *)
(* (generate_game_until_unique_solution), step by step.                    *)
(***************************************************************************)
\* game = create_game(config, seed=seed)
CreateGame(i) ==
    /\ pc[i] = "start"
    /\ game' = [game EXCEPT ![i] = create_game(config[i])]
    /\ rng' = create_game_rng(rng, seed[i])
    /\ pc' = [pc EXCEPT ![i] = "created"]
    /\ UNCHANGED <<test_cases, config, seed, max_attempts, attempts, prop, feasible, possible, returned>>

\* setup_scenario(game) drawing u; x is the generator state the call leaves
SetupScenario(i, u, x) ==
    /\ pc[i] = "created"
    /\ LET r == setup_scenario(game[i], u)
       IN  /\ game' = [game EXCEPT ![i] = r.game]
           /\ pc' = [pc EXCEPT ![i] = IF r.raised THEN "setup_raised" ELSE "ready"]
    /\ rng' = x
    /\ UNCHANGED <<test_cases, config, seed, max_attempts, attempts, prop, feasible, possible, returned>>

\* entry of generate_game_until_unique_solution: attempts = 0
Enter(i) ==
    /\ pc[i] = "ready"
    /\ attempts' = [attempts EXCEPT ![i] = 0]
    /\ pc' = [pc EXCEPT ![i] = "loop"]
    /\ UNCHANGED <<test_cases, config, seed, max_attempts, game, prop, feasible, possible, returned, rng>>

\* the loop head with `attempts += 1` skipped when generate_proposition returns None
Generate_none_uncounted(i, u, adv) ==
    /\ pc[i] = "loop"
    /\ attempts[i] < max_attempts[i]
    /\ LET r == generate_proposition(game[i], u)
       IN  /\ prop' = [prop EXCEPT ![i] = r.out]
           /\ attempts' = [attempts EXCEPT ![i] = IF r.out.tag = None THEN @ ELSE @ + 1]
           /\ pc' = [pc EXCEPT ![i] = IF r.out.tag = Raised THEN "raised"
                                      ELSE IF r.out.tag = None THEN "loop"
                                      ELSE "oracle"]
           /\ rng' = IF adv THEN RngAt(rng, r.draws) ELSE rng
    /\ UNCHANGED <<test_cases, config, seed, max_attempts, game, feasible, possible, returned>>

\* while attempts < max_attempts: attempts += 1; prop = generate_proposition(game);
\* if prop is None: continue.  adv: whether the draws advance the tracked generator.
Generate(i, u, adv) ==
    /\ pc[i] = "loop"
    /\ attempts[i] < max_attempts[i]
    /\ attempts' = [attempts EXCEPT ![i] = @ + 1]
    /\ LET r == generate_proposition(game[i], u)
       IN  /\ prop' = [prop EXCEPT ![i] = r.out]
           /\ pc' = [pc EXCEPT ![i] = IF r.out.tag = Raised THEN "raised"
                                      ELSE IF r.out.tag = None THEN "loop"
                                      ELSE "oracle"]
           /\ rng' = IF adv THEN RngAt(rng, r.draws) ELSE rng
    /\ UNCHANGED <<test_cases, config, seed, max_attempts, game, feasible, possible, returned>>

\* the oracle's answer ignored: the controller goes on to the append whatever it is
Oracle_answer_ignored(i) ==
    /\ pc[i] = "oracle"
    /\ LET r == is_feasible_with_proposition(game[i], prop[i].expr)
       IN  /\ feasible' = [feasible EXCEPT ![i] = r.ret]
           /\ game' = [game EXCEPT ![i] = r.game]
           /\ pc' = [pc EXCEPT ![i] = "accept"]
    /\ UNCHANGED <<test_cases, config, seed, max_attempts, attempts, prop, possible, returned, rng>>

\* if not is_feasible_with_proposition(game, proposition_expr): continue
Oracle(i) ==
    /\ pc[i] = "oracle"
    /\ LET r == is_feasible_with_proposition(game[i], prop[i].expr)
       IN  /\ feasible' = [feasible EXCEPT ![i] = r.ret]
           /\ game' = [game EXCEPT ![i] = r.game]
           /\ pc' = [pc EXCEPT ![i] = IF r.ret THEN "accept" ELSE "loop"]
    /\ UNCHANGED <<test_cases, config, seed, max_attempts, attempts, prop, possible, returned, rng>>

\* the accept inserting the formula at the front of the knowledge base
accept_front(g, p) ==
    [g EXCEPT !.knowledge_base = <<p.expr>> \o @, !.propositions = Append(@, p)]

\* the accept that does not record the proposition
accept_unrecorded(g, p) ==
    [g EXCEPT !.knowledge_base = Append(@, p.expr)]

\* the accept assigning a new one-formula list to knowledge_base instead of appending
accept_replacing(g, p) ==
    [g EXCEPT !.knowledge_base = <<p.expr>>, !.propositions = Append(@, p)]

\* the game after knowledge_base.append(proposition_expr); propositions.append(prop)
accept(g, p) ==
    [g EXCEPT !.knowledge_base = Append(@, p.expr), !.propositions = Append(@, p)]

\* the accept and count without the `return identified` of count == 1: the loop goes on
Accept_no_return(i) ==
    /\ pc[i] = "accept"
    /\ LET g1 == accept(game[i], prop[i])
           c  == check_solution_count(g1)
       IN  /\ game' = [game EXCEPT ![i] = g1]
           /\ possible' = [possible EXCEPT ![i] = c]
           /\ IF c.count = 0
              THEN /\ returned' = [returned EXCEPT ![i] = "NONE"]
                   /\ pc' = [pc EXCEPT ![i] = "none"]
              ELSE /\ returned' = returned
                   /\ pc' = [pc EXCEPT ![i] = "loop"]
    /\ UNCHANGED <<test_cases, config, seed, max_attempts, attempts, prop, feasible, rng>>

\* append to the knowledge base, then count, possible = check_solution_count(game):
\* return possible[0] on count == 1, "NONE" on count == 0, else go on
Accept(i) ==
    /\ pc[i] = "accept"
    /\ LET g1 == accept(game[i], prop[i])
           c  == check_solution_count(g1)
       IN  /\ game' = [game EXCEPT ![i] = g1]
           /\ possible' = [possible EXCEPT ![i] = c]
           /\ IF c.count = 1
              THEN /\ returned' = [returned EXCEPT ![i] = c.possible[1]]
                   /\ pc' = [pc EXCEPT ![i] = "converged"]
              ELSE IF c.count = 0
              THEN /\ returned' = [returned EXCEPT ![i] = "NONE"]
                   /\ pc' = [pc EXCEPT ![i] = "none"]
              ELSE /\ returned' = returned
                   /\ pc' = [pc EXCEPT ![i] = "loop"]
    /\ UNCHANGED <<test_cases, config, seed, max_attempts, attempts, prop, feasible, rng>>

\* the loop ends at the attempt limit: return possible[0] if possible else "UNKNOWN"
Exhausted(i) ==
    /\ pc[i] = "loop"
    /\ attempts[i] >= max_attempts[i]
    /\ LET c == check_solution_count(game[i])
       IN  /\ possible' = [possible EXCEPT ![i] = c]
           /\ returned' = [returned EXCEPT ![i] =
                             IF c.possible # <<>> THEN c.possible[1] ELSE "UNKNOWN"]
    /\ pc' = [pc EXCEPT ![i] = "exhausted"]
    /\ UNCHANGED <<test_cases, config, seed, max_attempts, game, attempts, prop, feasible, rng>>

\* serialize_proposition_data(prop_data): the SerializedProposition, field by field
serialize_proposition_data(prop_data) ==
    [prop_type |-> prop_data.prop_type, person |-> prop_data.person,
     person1 |-> prop_data.person1, person2 |-> prop_data.person2,
     attr_category |-> prop_data.attr_category, attr1_cat |-> prop_data.attr1_cat,
     attr2_cat |-> prop_data.attr2_cat, value |-> prop_data.value,
     val1 |-> prop_data.val1, val2 |-> prop_data.val2,
     mat1 |-> prop_data.mat1, food2 |-> prop_data.food2, inst2 |-> prop_data.inst2]

\* SerializedGame(seed=seed, killer=game.killer, ...): the Game Record of a game
SerializedGame(s, g) ==
    [seed |-> s, killer |-> g.killer, names |-> g.names, technologies |-> g.technologies,
     places |-> g.places, companies |-> g.companies, institutions |-> g.institutions,
     foods |-> g.foods, materials |-> g.materials, ground_truth |-> g.ground_truth,
     propositions |-> [k \in 1..Len(g.propositions) |->
                         serialize_proposition_data(g.propositions[k].data)]]

\* the controller returned (whichever return it took): the driver builds the
\* SerializedGame and keeps it.  Game i's record is the i-th one; pc[i] keeps the exit taken.
Serialize(i) ==
    /\ pc[i] \in {"converged", "none", "exhausted"}
    /\ Len(test_cases) = i - 1
    /\ test_cases' = Append(test_cases, SerializedGame(seed[i], game[i]))
    /\ UNCHANGED <<config, seed, max_attempts, game, pc, attempts, prop, feasible, possible,
                   returned, rng>>

(***************************************************************************)
(* Spec: one game, every sequence of random choices.                       *)
(***************************************************************************)
NoCount == [count |-> 0 - 1, possible |-> <<>>]

InitCommon ==
    /\ game = [i \in GameIds |-> NoGame]
    /\ attempts = [i \in GameIds |-> 0]
    /\ prop = [i \in GameIds |-> NoProp]
    /\ feasible = [i \in GameIds |-> FALSE]
    /\ possible = [i \in GameIds |-> NoCount]
    /\ returned = [i \in GameIds |-> None]
    /\ test_cases = <<>>

Init ==
    /\ InitCommon
    /\ \E in \in Inputs :
          /\ config = [i \in GameIds |-> in.config]
          /\ max_attempts = [i \in GameIds |-> in.max_attempts]
    /\ seed = [i \in GameIds |-> NoSeed]
    /\ pc = [i \in GameIds |-> IF i = 1 THEN "start" ELSE "unused"]
    /\ rng = 0

SetupAny ==
    /\ pc[1] = "created"
    /\ \E u \in SetupChoices(game[1]) : SetupScenario(1, u, rng)

GenerateAny ==
    /\ pc[1] = "loop"
    /\ attempts[1] < max_attempts[1]
    /\ \E u \in GenerateChoices(game[1]) : Generate(1, u, FALSE)

Next ==
    \/ CreateGame(1)
    \/ SetupAny
    \/ Enter(1)
    \/ GenerateAny
    \/ Oracle(1)
    \/ Accept(1)
    \/ Exhausted(1)
    \/ Serialize(1)

Spec == Init /\ [][Next]_vars

(***************************************************************************)
(* Seeded runs: the draws come from the shared generator `random`.         *)
(*   SpecRuns         the batch drivers (generate_test_cases,              *)
(*                    test_batch_games): one game after the other          *)
(*   SpecInterleaved  the steps of two games interleaved in any order      *)
(***************************************************************************)
\* seeds of the callers: 42 (test_generate_and_solve_game), 0 (default of generate_test_case)
Seeds == {0, 7, 42}

\* states the generator may be in before the first random.seed (seeded by the system)
RngStart == {0, 50}

Finished == {"converged", "none", "exhausted", "raised", "setup_raised"}

InitSeeded ==
    /\ InitCommon
    /\ config = [i \in GameIds |-> CfgVaried]
    /\ max_attempts = [i \in GameIds |-> MaxAttempts]
    /\ seed \in [GameIds -> Seeds]
    /\ pc = [i \in GameIds |-> "start"]
    /\ rng \in RngStart

SetupSeeded(i) ==
    /\ pc[i] = "created"
    /\ SetupScenario(i, Draws(rng, SetupDraws(game[i])), RngAt(rng, SetupDraws(game[i])))

GenerateSeeded(i) ==
    /\ pc[i] = "loop"
    /\ Generate(i, Draws(rng, 5), TRUE)

\* for seed in ...: create_game; setup_scenario; generate_game_until_unique_solution;
\* test_cases.append(serialized_game): a game is created once the records of the games
\* before it are appended (an exception in one of them leaves the loop)
CreateInTurn(i) ==
    /\ Len(test_cases) = i - 1
    /\ CreateGame(i)

NextRuns ==
    \E i \in GameIds :
        \/ CreateInTurn(i)
        \/ SetupSeeded(i)
        \/ Enter(i)
        \/ GenerateSeeded(i)
        \/ Oracle(i)
        \/ Accept(i)
        \/ Exhausted(i)
        \/ Serialize(i)

SpecRuns == InitSeeded /\ [][NextRuns]_vars

NextInterleaved ==
    \E i \in GameIds :
        \/ CreateGame(i)
        \/ SetupSeeded(i)
        \/ Enter(i)
        \/ GenerateSeeded(i)
        \/ Oracle(i)
        \/ Accept(i)
        \/ Exhausted(i)

SpecInterleaved == InitSeeded /\ [][NextInterleaved]_vars

(***************************************************************************)
(* SpecOracle: the feasibility oracle called on any knowledge base and any *)
(* candidate formula (not only those the controller builds).               *)
(***************************************************************************)
\* the longest knowledge base handed to the oracle
MaxKb == 2

\* formulas over the two people's is-killer symbols and one attribute symbol each
FormulaPool ==
    LET names == CfgTwo.names
        k(n)  == Symbol(KillerKey(n))
        a(n)  == Symbol(Key(n, CfgTwo.materials[1]))
        N     == Range(names)
    IN       {k(n) : n \in N} \cup {a(n) : n \in N} \cup {Not(k(n)) : n \in N}
        \cup {Implies(a(n), Not(k(n))) : n \in N}
        \cup {And(<<a(n), Implies(a(n), Not(k(n)))>>) : n \in N}
        \cup {Or(<<a(names[1]), a(names[2])>>),
              Or(<<k(names[1]), k(names[2])>>),
              Not(And(<<k(names[1]), k(names[2])>>))}

KnowledgeBases == UNION {[1..n -> FormulaPool] : n \in 0..MaxKb}

\* the candidates handed to the oracle: the pool, and a person's activity conjoined
\* with the negation of that person's is-killer symbol
Candidates ==
    FormulaPool \cup
        {And(<<Symbol(Key(n, CfgTwo.materials[1])), Not(Symbol(KillerKey(n)))>>) :
            n \in Range(CfgTwo.names)}

InitOracle ==
    /\ config = [i \in GameIds |-> CfgTwo]
    /\ max_attempts = [i \in GameIds |-> MaxAttempts]
    /\ seed = [i \in GameIds |-> NoSeed]
    /\ rng = 0
    /\ \E u \in SetupChoices(create_game(CfgTwo)), kb \in KnowledgeBases :
          game = [i \in GameIds |->
                    IF i = 1
                    THEN [setup_scenario(create_game(CfgTwo), u).game
                            EXCEPT !.knowledge_base = kb]
                    ELSE NoGame]
    /\ \E cand \in Candidates :
          prop = [i \in GameIds |-> IF i = 1 THEN [NoProp EXCEPT !.tag = "prop", !.expr = cand]
                                    ELSE NoProp]
    /\ pc = [i \in GameIds |-> IF i = 1 THEN "oracle" ELSE "unused"]
    /\ attempts = [i \in GameIds |-> IF i = 1 THEN 1 ELSE 0]
    /\ feasible = [i \in GameIds |-> FALSE]
    /\ possible = [i \in GameIds |-> NoCount]
    /\ returned = [i \in GameIds |-> None]
    /\ test_cases = <<>>

NextOracle ==
    \/ Oracle(1)
    \/ Accept(1)

SpecOracle == InitOracle /\ [][NextOracle]_vars

(***************************************************************************)
(* SpecAttempt: the controller called on a game whose knowledge base is    *)
(* any short list of formulas, so that candidates are also rejected and    *)
(* the suspect counter also sees knowledge bases no setup produces.        *)
(***************************************************************************)
\* the knowledge bases handed to the controller: empty or one formula
AttemptKbs == {<<>>} \cup {<<f>> : f \in FormulaPool}

InitAttempt ==
    /\ attempts = [i \in GameIds |-> 0]
    /\ prop = [i \in GameIds |-> NoProp]
    /\ feasible = [i \in GameIds |-> FALSE]
    /\ possible = [i \in GameIds |-> NoCount]
    /\ returned = [i \in GameIds |-> None]
    /\ test_cases = <<>>
    /\ \E c \in {CfgTwo, CfgOne} :
          /\ config = [i \in GameIds |-> c]
          /\ max_attempts = [i \in GameIds |-> IF c = CfgOne THEN MaxAttempts
                                                ELSE MaxAttempts - 1]
          /\ \E u \in SetupChoices(create_game(c)), kb \in AttemptKbs :
                game = [i \in GameIds |->
                          IF i = 1
                          THEN [setup_scenario(create_game(c), u).game
                                  EXCEPT !.knowledge_base = kb]
                          ELSE NoGame]
    /\ seed = [i \in GameIds |-> NoSeed]
    /\ pc = [i \in GameIds |-> IF i = 1 THEN "ready" ELSE "unused"]
    /\ rng = 0

NextAttempt ==
    \/ Enter(1)
    \/ GenerateAny
    \/ Oracle(1)
    \/ Accept(1)
    \/ Exhausted(1)

SpecAttempt == InitAttempt /\ [][NextAttempt]_vars

(***************************************************************************)
(* SpecFair: the controller with an attempt bound that never limits the    *)
(* run, under fair random choice.  The attempts that draw another template *)
(* than direct elimination are explored up to FreeAttempts of them; a      *)
(* direct elimination can be drawn at every attempt.                       *)
(***************************************************************************)
\* the most attempts of a two-person game that draw another template than direct
\* elimination (one less for three people)
MaxFree == 1

FreeAttempts(cfg) == IF Len(cfg.names) = 2 THEN MaxFree ELSE MaxFree - 1

InitFair ==
    /\ InitCommon
    /\ \E c \in {CfgTwo, CfgThree} :
          /\ config = [i \in GameIds |-> c]
          /\ max_attempts = [i \in GameIds |-> FreeAttempts(c) + Len(c.names)]
    /\ seed = [i \in GameIds |-> NoSeed]
    /\ pc = [i \in GameIds |-> IF i = 1 THEN "start" ELSE "unused"]
    /\ rng = 0

\* an attempt whose random.choices draws one of the first four templates
GenerateFree ==
    /\ pc[1] = "loop"
    /\ attempts[1] < FreeAttempts(config[1])
    /\ \E u \in GenerateChoices(game[1]) :
          /\ choices_prop_type(u[1]) # PROP_DIRECT_ELIMINATION
          /\ Generate(1, u, FALSE)

\* an attempt whose random.choices draws PROP_DIRECT_ELIMINATION
GenerateDirect ==
    /\ pc[1] = "loop"
    /\ \E u \in GenerateChoices(game[1]) :
          /\ choices_prop_type(u[1]) = PROP_DIRECT_ELIMINATION
          /\ Generate(1, u, FALSE)

NextFair ==
    \/ CreateGame(1)
    \/ SetupAny
    \/ Enter(1)
    \/ GenerateFree
    \/ GenerateDirect
    \/ Oracle(1)
    \/ Accept(1)

\* the loop head can make another attempt: GenerateDirect is enabled exactly then
CanDraw == pc[1] = "loop" /\ attempts[1] < max_attempts[1]

\* the state a GenerateDirect step that built a candidate leads to, and no other step
DirectDrawn == pc[1] = "oracle" /\ prop[1].data.prop_type = PROP_DIRECT_ELIMINATION

\* The driver and the controller run on: weak fairness of each step.  Oracle(1) and
\* Accept(1) are enabled exactly at their position and leave it, so their weak
\* fairness is written on the position.  Fair random choice: a template that can be
\* drawn again and again is eventually drawn (strong fairness of GenerateDirect,
\* written on the states it is enabled in and leads to).
SpecFair ==
    /\ InitFair
    /\ [][NextFair]_vars
    /\ WF_vars(CreateGame(1))
    /\ WF_vars(SetupAny)
    /\ WF_vars(Enter(1))
    /\ []<>(pc[1] # "oracle")
    /\ []<>(pc[1] # "accept")
    /\ (<>[]~CanDraw \/ []<>DirectDrawn)

(***************************************************************************)
(* Properties.                                                             *)
(***************************************************************************)
\* some assignment of the symbols occurring in the formulas fs makes all of them true
HasModel(fs) ==
    LET A == UNION {AtomsOf(fs[i]) : i \in 1..Len(fs)}
    IN  \E T \in SUBSET A : \A i \in 1..Len(fs) : Eval(fs[i], T)

\* setup_scenario has returned normally
AfterSetup(i) ==
    pc[i] \in {"ready", "loop", "oracle", "accept", "converged", "none", "exhausted", "raised"}

\* the is-killer symbol of the true killer
TrueKillerSym(i) == Symbol(KillerKey(game[i].killer))

\* C1: when the controller returns through the convergence branch (count == 1 after
\* an accept), the name it returns is game.killer.
C1_ConvergedIsKiller ==
    pc[1] = "converged" => returned[1] = game[1].killer

\* a converged two-person game whose killer is not the first name
C1_Witness ==
    /\ pc[1] = "converged"
    /\ Len(game[1].names) = 2
    /\ game[1].killer = game[1].names[2]
    /\ returned[1] = game[1].killer
    /\ Len(game[1].propositions) = 2

\* C2: in every state after setup_scenario the knowledge base is satisfiable, and it is
\* satisfiable together with the true killer's is-killer symbol.
C2_KnowledgeBaseSatisfiable ==
    AfterSetup(1) =>
        /\ HasModel(game[1].knowledge_base)
        /\ HasModel(game[1].knowledge_base \o <<TrueKillerSym(1)>>)

\* two propositions accepted onto the base constraints of a two-person game
C2_Witness ==
    /\ AfterSetup(1)
    /\ Len(game[1].names) = 2
    /\ Len(game[1].propositions) = 2
    /\ Len(game[1].knowledge_base) = 4
    /\ HasModel(game[1].knowledge_base \o <<TrueKillerSym(1)>>)

\* C3 (as claimed): on every exit path of the controller check_solution_count reports
\* exactly one possible killer, that person is game.killer, and the returned name is
\* game.killer.
C3_EveryExitUnique ==
    (ValidConfig(config[1]) /\ pc[1] \in {"converged", "none", "exhausted"}) =>
        /\ check_solution_count(game[1]).count = 1
        /\ check_solution_count(game[1]).possible = <<game[1].killer>>
        /\ returned[1] = game[1].killer

\* C4 (as claimed): when the attempt bound is exhausted the controller does not return
\* a person's name, the form of a converged answer.
C4_ExhaustedDistinguishable ==
    (ValidConfig(config[1]) /\ pc[1] = "exhausted") => returned[1] \notin Range(game[1].names)

\* C7 (as claimed): for a configuration with fewer than 2 names or an empty category
\* no ground truth, killer or knowledge base is produced and the loop is not entered.
C7_InvalidConfigRejected ==
    ~ValidConfig(config[1]) =>
        /\ game[1].ground_truth = <<>>
        /\ game[1].killer \in {None, ""}
        /\ game[1].knowledge_base = <<>>
        /\ ~AfterSetup(1)

RECURSIVE Subformulas(_)
Subformulas(f) == {f} \cup UNION {Subformulas(f.args[i]) : i \in 1..Len(f.args)}

\* f contains an alibi whose consequent is the negation of person's is-killer symbol
HasAlibiFor(f, person) ==
    \E h \in Subformulas(f) :
        h.op = "Implies" /\ h.args[2] = Not(Symbol(KillerKey(person)))

AlibiTypes == {PROP_PERSON_ATTRIBUTE_IMPLIES_NOT_KILLER, PROP_DIRECT_ELIMINATION}

\* C8: every alibi-implication or direct-elimination candidate names a person other
\* than the killer, and no candidate or accepted formula contains an alibi whose
\* consequent negates the killer's is-killer symbol.
C8_AlibiNamesInnocent ==
    /\ pc[1] = "oracle" =>
         /\ prop[1].data.prop_type \in AlibiTypes => prop[1].data.person # game[1].killer
         /\ ~HasAlibiFor(prop[1].expr, game[1].killer)
    /\ AfterSetup(1) =>
         \A k \in 1..Len(game[1].propositions) :
            /\ game[1].propositions[k].data.prop_type \in AlibiTypes =>
                 game[1].propositions[k].data.person # game[1].killer
            /\ ~HasAlibiFor(game[1].propositions[k].expr, game[1].killer)

\* a direct elimination generated after an alibi implication was accepted
C8_Witness ==
    /\ pc[1] = "oracle"
    /\ prop[1].data.prop_type = PROP_DIRECT_ELIMINATION
    /\ prop[1].data.person # game[1].killer
    /\ Len(game[1].propositions) = 1
    /\ game[1].propositions[1].data.prop_type = PROP_PERSON_ATTRIBUTE_IMPLIES_NOT_KILLER

\* the ordered proposition descriptions of a game (the Game Record's propositions)
Descriptions(g) == [k \in 1..Len(g.propositions) |-> g.propositions[k].data]

RECURSIVE RunLoop(_, _, _, _)
\* generate_game_until_unique_solution run to its end from generator state x, no
\* other caller of `random` in between: the game it leaves
RunLoop(g, x, n, max) ==
    IF n >= max THEN g
    ELSE LET p  == generate_proposition(g, Draws(x, 5))
             x1 == RngAt(x, p.draws)
             o  == is_feasible_with_proposition(g, p.out.expr)
             g1 == accept(o.game, p.out)
         IN  IF p.out.tag = Raised THEN g
             ELSE IF p.out.tag = None THEN RunLoop(g, x1, n + 1, max)
             ELSE IF ~o.ret THEN RunLoop(o.game, x1, n + 1, max)
             ELSE IF check_solution_count(g1).count \in {0, 1} THEN g1
             ELSE RunLoop(g1, x1, n + 1, max)

\* create_game(cfg, seed=s); setup_scenario; generate_game_until_unique_solution,
\* run alone: the game it leaves
RunAlone(cfg, s, max) ==
    LET g0 == create_game(cfg)
        x0 == SeedState(s)
        k  == SetupDraws(g0)
        r  == setup_scenario(g0, Draws(x0, k))
    IN  IF r.raised THEN r.game ELSE RunLoop(r.game, RngAt(x0, k), 0, max)

\* C5: two runs, one after the other, with the same integer seed and the same
\* configuration leave the same ground truth, the same killer and the same ordered
\* proposition descriptions.
C5_SameSeedSameGame ==
    (/\ pc[1] \in Finished
     /\ pc[2] \in Finished
     /\ seed[1] = seed[2]
     /\ config[1] = config[2]
     /\ max_attempts[1] = max_attempts[2]) =>
        /\ game[1].ground_truth = game[2].ground_truth
        /\ game[1].killer = game[2].killer
        /\ Descriptions(game[1]) = Descriptions(game[2])
        /\ returned[1] = returned[2]

\* both runs of one seed have ended, with propositions accepted
C5_Witness ==
    /\ pc[1] \in Finished
    /\ pc[2] \in Finished
    /\ seed[1] = seed[2]
    /\ Len(game[2].propositions) >= 2
    /\ Descriptions(game[1]) = Descriptions(game[2])

\* C6 (as claimed): with the steps of two games interleaved in any order, each game
\* ends with the ground truth, killer and propositions it has when run alone with its seed.
C6_InterleavedAsAlone ==
    \A i \in GameIds :
        pc[i] \in Finished =>
            LET alone == RunAlone(config[i], seed[i], max_attempts[i])
            IN  /\ game[i].ground_truth = alone.ground_truth
                /\ game[i].killer = alone.killer
                /\ Descriptions(game[i]) = Descriptions(alone)

\* C9: is_feasible_with_proposition returns true exactly when the knowledge-base
\* formulas, the candidate and the killer's is-killer symbol have a common model.
C9_OracleIffSatisfiable ==
    (pc[1] \in {"accept", "loop"} /\ game[1].propositions = <<>>) =>
        (feasible[1] <=>
            HasModel((game[1].knowledge_base \o <<prop[1].expr>>) \o <<TrueKillerSym(1)>>))

\* the oracle rejected a candidate against a knowledge base of two formulas
C9_Witness ==
    /\ pc[1] = "loop"
    /\ ~feasible[1]
    /\ Len(game[1].knowledge_base) = 2
    /\ HasModel(game[1].knowledge_base \o <<TrueKillerSym(1)>>)
    /\ HasModel(<<prop[1].expr>>)

\* C10: a call of the oracle leaves the game object (knowledge base, propositions,
\* ground truth, killer) as it was; the knowledge base changes after setup only by
\* appending the candidate for which the oracle returned true on that knowledge base.
C10_OracleFrameAndAccept ==
    /\ [][pc[1] = "oracle" => game' = game]_vars
    /\ [][(AfterSetup(1) /\ game'[1].knowledge_base # game[1].knowledge_base) =>
            /\ pc[1] = "accept"
            /\ feasible[1]
            /\ game'[1].knowledge_base = Append(game[1].knowledge_base, prop[1].expr)
            /\ is_feasible_with_proposition(game[1], prop[1].expr).ret
            /\ HasModel((game[1].knowledge_base \o <<prop[1].expr>>) \o <<TrueKillerSym(1)>>)]_vars

\* the oracle returned true and the candidate was then appended to two formulas
C10_Witness ==
    /\ pc[1] \in {"loop", "converged", "none"}
    /\ feasible[1]
    /\ Len(game[1].knowledge_base) = 3
    /\ game[1].knowledge_base[3] = prop[1].expr
    /\ Len(game[1].propositions) = 1

\* the names n, in configuration order, whose is-killer symbol has a common model
\* with the formulas kb
SuspectsOf(names, kb) ==
    Filter(names, {n \in Range(names) : HasModel(kb \o <<Symbol(KillerKey(n))>>)})

\* C11: whenever the controller has called check_solution_count, the result is the
\* list of the names, in configuration order, whose is-killer symbol is satisfiable
\* with the knowledge base, and its length; the full name list for the empty one.
C11_CountIsSatisfiableNames ==
    possible[1] # NoCount =>
        /\ possible[1].possible = SuspectsOf(game[1].names, game[1].knowledge_base)
        /\ possible[1].count = Len(possible[1].possible)
        /\ game[1].knowledge_base = <<>> => possible[1].possible = game[1].names

\* both names counted, in configuration order, on a knowledge base of two formulas
C11_Witness ==
    /\ possible[1] # NoCount
    /\ Len(game[1].knowledge_base) = 2
    /\ Len(game[1].names) = 2
    /\ possible[1] = [count |-> 2, possible |-> game[1].names]

\* C12: once a proposition has been accepted the suspect counter never reports zero
\* suspects, and the controller never takes its count == 0 return.
C12_NeverZeroSuspects ==
    /\ pc[1] # "none"
    /\ (game[1].propositions # <<>> /\ possible[1] # NoCount) => possible[1].count >= 1

\* a candidate accepted on a knowledge base that already excludes the other person
C12_Witness ==
    /\ pc[1] = "converged"
    /\ Len(game[1].names) = 2
    /\ Len(game[1].propositions) = 1
    /\ Len(game[1].knowledge_base) = 2
    /\ possible[1] = [count |-> 1, possible |-> <<game[1].killer>>]

\* C13 (as claimed): in the batch driver a game that ended in a fault (attempt bound
\* exhausted, zero suspects) is recorded as a fault for its seed: the list of test
\* cases holds only the records of games that converged.
C13_FaultRecordedNotListed ==
    \A k \in 1..Len(test_cases) : pc[k] = "converged"

\* what is left of the controller's run: three positions per attempt not yet made
Remaining(i) ==
    LET left == 3 * (max_attempts[i] - attempts[i])
    IN  CASE pc[i] = "ready"  -> left + 1
          [] pc[i] = "loop"   -> left
          [] pc[i] = "oracle" -> left + 2
          [] pc[i] = "accept" -> left + 1
          [] OTHER            -> 0 - 1

\* a step of the loop head that called generate_proposition
GenerateStep(i) ==
    pc[i] = "loop" /\ pc'[i] \in {"loop", "oracle", "raised"}

\* C14: the controller makes at most max_attempts attempts; every call of
\* generate_proposition (no candidate, rejected or accepted) adds one to attempts and
\* nothing else does; every step of the controller shortens what is left of the run,
\* so the run ends.
C14_BoundedAttempts ==
    /\ [](attempts[1] <= max_attempts[1])
    /\ [][GenerateStep(1) <=> attempts'[1] = attempts[1] + 1]_vars
    /\ [][attempts'[1] \in {attempts[1], attempts[1] + 1}]_vars
    /\ [][Remaining(1)' < Remaining(1) /\ Remaining(1) >= 0]_vars

\* the bound was reached after two attempts, the last one a rejected candidate
C14_Witness ==
    /\ pc[1] = "exhausted"
    /\ attempts[1] = max_attempts[1]
    /\ attempts[1] >= 2
    /\ game[1].propositions = <<>>
    /\ prop[1].tag = "prop"
    /\ ~feasible[1]

KillerAtoms(g) == {KillerKey(n) : n \in Range(g.names)}

\* C16: when setup_scenario returns on a freshly created game with n names the
\* knowledge base holds 1 + n(n-1)/2 formulas, the disjunction of all is-killer
\* symbols first and then one negated conjunction per pair of names, and an
\* assignment satisfies it exactly when exactly one is-killer symbol is true.
C16_ExactlyOneKillerBase ==
    pc[1] = "ready" =>
        LET g  == game[1]
            n  == Len(g.names)
            kb == g.knowledge_base
        IN  /\ 2 * Len(kb) = 2 + (n * (n - 1))
            /\ kb[1] = Or([i \in 1..n |-> Symbol(KillerKey(g.names[i]))])
            /\ \A k \in 2..Len(kb) : kb[k].op = "Not" /\ kb[k].args[1].op = "And"
            /\ \A i, j \in 1..n : i < j =>
                  \E k \in 2..Len(kb) :
                     kb[k] = Not(And(<<Symbol(KillerKey(g.names[i])),
                                       Symbol(KillerKey(g.names[j]))>>))
            /\ \A T \in SUBSET KillerAtoms(g) :
                  (\A k \in 1..Len(kb) : Eval(kb[k], T)) <=> Cardinality(T) = 1

\* setup returned on a game of three names: four formulas
C16_Witness ==
    /\ pc[1] = "ready"
    /\ Len(game[1].names) = 3
    /\ Len(game[1].knowledge_base) = 4
    /\ game[1].propositions = <<>>

\* s is an initial part of t
IsPrefix(s, t) == Len(s) <= Len(t) /\ SubSeq(t, 1, Len(s)) = s

\* C17: every step after setup leaves the symbol table, the ground truth and the killer
\* as they are, and the knowledge base before the step is an initial part of the
\* knowledge base after it (nothing removed, reordered or rewritten).
C17_AppendOnly ==
    [][AfterSetup(1) =>
          /\ game'[1].symbols_map = game[1].symbols_map
          /\ game'[1].ground_truth = game[1].ground_truth
          /\ game'[1].killer = game[1].killer
          /\ game'[1].names = game[1].names
          /\ IsPrefix(game[1].knowledge_base, game'[1].knowledge_base)
          /\ IsPrefix(game[1].propositions, game'[1].propositions)]_vars

\* two appends behind the base clauses of a two-person game, the run ended
C17_Witness ==
    /\ pc[1] = "exhausted"
    /\ Len(game[1].propositions) = 2
    /\ Len(game[1].knowledge_base) = 4
    /\ game[1].knowledge_base[1].op = "Or"
    /\ game[1].knowledge_base[2].op = "Not"
    /\ game[1].knowledge_base[4] = game[1].propositions[2].expr

\* C18: when the oracle reports the candidate infeasible, or generate_proposition
\* yields no candidate, the step leaves the game (knowledge base, proposition record),
\* the last count of the suspect counter and the returned value as they are and goes
\* back to the loop head.
C18_RejectedAttemptLeavesGame ==
    /\ [][(pc[1] = "oracle" /\ ~feasible'[1]) =>
             /\ game' = game
             /\ possible' = possible
             /\ returned' = returned
             /\ pc'[1] = "loop"]_vars
    /\ [][(GenerateStep(1) /\ prop'[1].tag = None) =>
             /\ game' = game
             /\ possible' = possible
             /\ returned' = returned
             /\ pc'[1] = "loop"]_vars

\* back at the loop head after a rejected candidate: nothing appended, nothing counted
C18_Witness ==
    /\ pc[1] = "loop"
    /\ prop[1].tag = "prop"
    /\ ~feasible[1]
    /\ attempts[1] = 2
    /\ game[1].propositions = <<>>
    /\ Len(game[1].knowledge_base) = 1
    /\ possible[1] = NoCount

\* the number of base clauses of a game of n names
BaseClauses(n) == 1 + ((n * (n - 1)) \div 2)

\* C19: after setup the knowledge base is the base clauses followed by the formulas of
\* the recorded propositions in acceptance order, and the Game Record built from the
\* game lists the descriptions of exactly these propositions in that order.
C19_KnowledgeBaseMirrorsRecord ==
    /\ AfterSetup(1) =>
          LET g == game[1]
              b == BaseClauses(Len(g.names))
          IN  /\ Len(g.knowledge_base) = b + Len(g.propositions)
              /\ \A k \in 1..Len(g.propositions) :
                    g.knowledge_base[b + k] = g.propositions[k].expr
    /\ Len(test_cases) >= 1 =>
          /\ Len(test_cases[1].propositions) = Len(game[1].propositions)
          /\ \A k \in 1..Len(game[1].propositions) :
                \A f \in DOMAIN game[1].propositions[k].data :
                   test_cases[1].propositions[k][f] = game[1].propositions[k].data[f]
          /\ test_cases[1].killer = game[1].killer
          /\ test_cases[1].ground_truth = game[1].ground_truth

\* the record of a converged game with two propositions
C19_Witness ==
    /\ pc[1] = "converged"
    /\ Len(test_cases) = 1
    /\ Len(test_cases[1].propositions) = 2
    /\ Len(game[1].knowledge_base) = 4
    /\ test_cases[1].propositions[1] # test_cases[1].propositions[2]

\* the scenario: the symbols that are true, person_value for each ground-truth value
\* of the person and person_is_killer for the killer
Scenario(g) ==
    {Key(p, g.ground_truth[p][f]) : p \in Range(g.names), f \in Range(ActivityFields)}
        \cup {KillerKey(g.killer)}

\* C20: every candidate generate_proposition returns, of whichever template, is true
\* under the scenario (and so is every formula of the knowledge base).
C20_CandidateTrueOfScenario ==
    /\ pc[1] = "oracle" => Eval(prop[1].expr, Scenario(game[1]))
    /\ AfterSetup(1) =>
          \A k \in 1..Len(game[1].knowledge_base) :
             Eval(game[1].knowledge_base[k], Scenario(game[1]))

\* a disjunction about two people with different materials, one disjunct about metal
C20_Witness ==
    /\ pc[1] = "oracle"
    /\ prop[1].data.prop_type = PROP_PERSON_OR_PERSON
    /\ prop[1].data.val1 = "metal"
    /\ game[1].ground_truth[prop[1].data.person2].material = "wood"
    /\ Eval(prop[1].expr, Scenario(game[1]))

\* the draws of GenerateChoices whose random.choices picks direct elimination
DirectChoices(g) == {u \in GenerateChoices(g) : choices_prop_type(u[1]) = PROP_DIRECT_ELIMINATION}

\* the suspects of the knowledge base other than the killer
InnocentSuspectsOf(g) == Range(SuspectsOf(g.names, g.knowledge_base)) \ {g.killer}

\* C21: the direct-elimination template returns a candidate only about a person who is
\* a current suspect and not the killer, and returns no candidate exactly when no
\* suspect other than the killer is left.
C21_DirectEliminationTargets ==
    /\ (pc[1] = "loop" /\ attempts[1] < max_attempts[1]) =>
          \A u \in DirectChoices(game[1]) :
             LET r == generate_proposition(game[1], u).out
             IN  /\ r.tag \in {"prop", None}
                 /\ r.tag = None <=> InnocentSuspectsOf(game[1]) = {}
                 /\ r.tag = "prop" =>
                       /\ r.data.prop_type = PROP_DIRECT_ELIMINATION
                       /\ r.data.person \in InnocentSuspectsOf(game[1])
    /\ (pc[1] = "oracle" /\ prop[1].data.prop_type = PROP_DIRECT_ELIMINATION) =>
          prop[1].data.person \in InnocentSuspectsOf(game[1])

\* two people, the knowledge base leaves the killer as the only suspect: the attempt
\* (a direct elimination, the one template that can decline here) gave no candidate
C21_Witness ==
    /\ pc[1] = "loop"
    /\ attempts[1] = 1
    /\ prop[1].tag = None
    /\ Len(game[1].names) = 2
    /\ Len(game[1].knowledge_base) = 1
    /\ InnocentSuspectsOf(game[1]) = {}

\* the fields of a description other than prop_type
DataFields ==
    {"person", "person1", "person2", "attr_category", "attr1_cat", "attr2_cat",
     "value", "val1", "val2", "mat1", "food2", "inst2"}

\* the fields a description of type t carries
ShapeFields(t) ==
    CASE t \in {PROP_PERSON_AND_ATTRIBUTE, PROP_PERSON_ATTRIBUTE_IMPLIES_NOT_KILLER,
                PROP_DIRECT_ELIMINATION} -> {"person", "attr_category", "value"}
      [] t = PROP_PERSON_OR_PERSON ->
            {"person1", "person2", "attr1_cat", "attr2_cat", "val1", "val2"}
      [] t = PROP_COMPLEX_OR -> {"person1", "person2", "mat1", "food2", "inst2"}
      [] OTHER -> {}

\* description d of game g: exactly the fields of its shape are set, the two people of
\* a disjunction differ, every value is the ground-truth value of its person and category
WellShaped(g, d) ==
    LET t  == d.prop_type
        gt == g.ground_truth
    IN  /\ t \in {PROP_PERSON_AND_ATTRIBUTE, PROP_PERSON_OR_PERSON,
                  PROP_PERSON_ATTRIBUTE_IMPLIES_NOT_KILLER, PROP_COMPLEX_OR,
                  PROP_DIRECT_ELIMINATION}
        /\ \A f \in DataFields : d[f] # None <=> f \in ShapeFields(t)
        /\ "person" \in ShapeFields(t) =>
              /\ d.person \in Range(g.names)
              /\ d.attr_category \in Range(Cats4)
              /\ d.value = gt[d.person][d.attr_category]
        /\ t = PROP_PERSON_OR_PERSON =>
              /\ d.person1 \in Range(g.names)
              /\ d.person2 \in Range(g.names)
              /\ d.person1 # d.person2
              /\ d.attr1_cat \in Range(Cats3)
              /\ d.attr2_cat \in Range(Cats3)
              /\ d.val1 = gt[d.person1][d.attr1_cat]
              /\ d.val2 = gt[d.person2][d.attr2_cat]
        /\ t = PROP_COMPLEX_OR =>
              /\ d.person1 \in Range(g.names)
              /\ d.person2 \in Range(g.names)
              /\ d.person1 # d.person2
              /\ d.mat1 = gt[d.person1].material
              /\ d.food2 = gt[d.person2].food
              /\ d.inst2 = gt[d.person2].institution

\* C22: every description the generator produces (the candidate of an attempt and
\* every recorded proposition) has exactly the fields of its shape set, names two
\* distinct people in a disjunction or compound disjunction, and records the
\* ground-truth value of each person for the recorded category.
C22_DescriptionShape ==
    /\ pc[1] = "oracle" => WellShaped(game[1], prop[1].data)
    /\ AfterSetup(1) =>
          \A k \in 1..Len(game[1].propositions) :
             WellShaped(game[1], game[1].propositions[k].data)

\* a compound disjunction recorded, the two people's materials differ
C22_Witness ==
    /\ AfterSetup(1)
    /\ Len(game[1].propositions) = 1
    /\ game[1].propositions[1].data.prop_type = PROP_COMPLEX_OR
    /\ game[1].propositions[1].data.mat1 = "metal"
    /\ game[1].ground_truth[game[1].propositions[1].data.person2].material = "wood"
    /\ game[1].propositions[1].data.value = None

\* C23: right after setup_scenario, with only the exactly-one-killer clauses in the
\* knowledge base, the suspect counter reports every name; after one Statement
\* proposition has been accepted on top of them it still reports every name, the
\* killer among them.
C23_StatementKeepsEverySuspect ==
    /\ pc[1] = "ready" =>
          /\ check_solution_count(game[1]) =
                [count |-> Len(game[1].names), possible |-> game[1].names]
          /\ SuspectsOf(game[1].names, game[1].knowledge_base) = game[1].names
    /\ (/\ AfterSetup(1)
        /\ Len(game[1].propositions) = 1
        /\ game[1].propositions[1].data.prop_type = PROP_PERSON_AND_ATTRIBUTE
        /\ possible[1] # NoCount) =>
          /\ possible[1] = [count |-> Len(game[1].names), possible |-> game[1].names]
          /\ game[1].killer \in Range(possible[1].possible)
          /\ check_solution_count(game[1]) = possible[1]

\* a Statement about the person who is not the killer accepted and counted: both
\* names are still suspects and the loop goes on
C23_Witness ==
    /\ pc[1] = "loop"
    /\ Len(game[1].names) = 2
    /\ Len(game[1].propositions) = 1
    /\ game[1].propositions[1].data.prop_type = PROP_PERSON_AND_ATTRIBUTE
    /\ game[1].propositions[1].data.person # game[1].killer
    /\ possible[1] = [count |-> 2, possible |-> game[1].names]

\* the people P of game g, other than the killer, for whom a Statement "P has value V"
\* and an Alibi Implication "P has value V implies P is not the killer" are both accepted
StatedAndAlibied(g) ==
    {P \in Range(g.names) \ {g.killer} :
        \E j, k \in 1..Len(g.propositions) :
           LET s == g.propositions[j].data
               a == g.propositions[k].data
           IN  /\ s.prop_type = PROP_PERSON_AND_ATTRIBUTE
               /\ a.prop_type = PROP_PERSON_ATTRIBUTE_IMPLIES_NOT_KILLER
               /\ s.person = P
               /\ a.person = P
               /\ s.value = a.value}

\* C24: once the knowledge base holds "P has value V" for a person P other than the
\* killer and the Alibi Implication "P has value V implies P is not the killer", in
\* whichever order the two were accepted, the suspect counter's result does not
\* contain P.
C24_AlibiWithFactExcludes ==
    AfterSetup(1) =>
        \A P \in StatedAndAlibied(game[1]) :
           /\ P \notin Range(check_solution_count(game[1]).possible)
           /\ P \notin Range(SuspectsOf(game[1].names, game[1].knowledge_base))
           /\ possible[1] # NoCount
           /\ P \notin Range(possible[1].possible)

\* the Alibi Implication was accepted first (both still suspects), then the Statement
\* of its antecedent: the count after it leaves the killer alone
C24_Witness ==
    /\ pc[1] = "converged"
    /\ Len(game[1].propositions) = 2
    /\ game[1].propositions[1].data.prop_type = PROP_PERSON_ATTRIBUTE_IMPLIES_NOT_KILLER
    /\ game[1].propositions[2].data.prop_type = PROP_PERSON_AND_ATTRIBUTE
    /\ StatedAndAlibied(game[1]) # {}
    /\ possible[1] = [count |-> 1, possible |-> <<game[1].killer>>]

\* the Statement first, then the Alibi Implication
C24_StatementFirst ==
    /\ pc[1] = "converged"
    /\ Len(game[1].propositions) = 2
    /\ game[1].propositions[2].data.prop_type = PROP_PERSON_ATTRIBUTE_IMPLIES_NOT_KILLER
    /\ game[1].propositions[1].data.prop_type = PROP_PERSON_AND_ATTRIBUTE
    /\ StatedAndAlibied(game[1]) # {}

\* formula f asserts that person is not the killer: it is the negation of the person's
\* is-killer symbol, or a conjunction with that negation among its conjuncts
AssertsNotKiller(f, person) ==
    \/ f = Not(Symbol(KillerKey(person)))
    \/ /\ f.op = "And"
       /\ \E k \in 1..Len(f.args) : f.args[k] = Not(Symbol(KillerKey(person)))

\* C25: whatever the knowledge base, the oracle returns false for a candidate that
\* asserts the negation of the true killer's is-killer symbol, alone or as a conjunct;
\* the controller goes back to the loop head and no step appends such a formula.
C25_KillerDenialRejected ==
    /\ [][(pc[1] = "oracle" /\ AssertsNotKiller(prop[1].expr, game[1].killer)) =>
             /\ ~feasible'[1]
             /\ pc'[1] = "loop"
             /\ game' = game]_vars
    /\ [][game'[1].knowledge_base # game[1].knowledge_base =>
             ~AssertsNotKiller(prop[1].expr, game[1].killer)]_vars

\* "the killer had wood and is not the killer" rejected against two formulas that
\* are themselves satisfiable with the killer
C25_Witness ==
    /\ pc[1] = "loop"
    /\ ~feasible[1]
    /\ prop[1].expr.op = "And"
    /\ AssertsNotKiller(prop[1].expr, game[1].killer)
    /\ Len(game[1].knowledge_base) = 2
    /\ HasModel(game[1].knowledge_base \o <<TrueKillerSym(1)>>)

\* C26: in the controller every candidate generate_proposition returns passes the
\* feasibility oracle: at the oracle's position the call returns true (the knowledge
\* base, the candidate and the killer's symbol have a common model), the step after it
\* is the accept, and no candidate is ever left rejected.
C26_NoCandidateRejected ==
    /\ [](pc[1] = "oracle" =>
             /\ is_feasible_with_proposition(game[1], prop[1].expr).ret
             /\ HasModel((game[1].knowledge_base \o <<prop[1].expr>>) \o <<TrueKillerSym(1)>>))
    /\ []((pc[1] # "oracle" /\ prop[1].tag = "prop") => feasible[1])
    /\ [][pc[1] = "oracle" => (pc'[1] = "accept" /\ feasible'[1])]_vars

\* the oracle passed a direct elimination offered after another proposition was accepted
C26_Witness ==
    /\ pc[1] = "accept"
    /\ feasible[1]
    /\ prop[1].data.prop_type = PROP_DIRECT_ELIMINATION
    /\ Len(game[1].propositions) = 1
    /\ attempts[1] = 2

AssertedValues(g, P) ==
    {g.propositions[k].data.value : k \in {j \in 1..Len(g.propositions) :
        /\ g.propositions[j].data.prop_type \in
              {PROP_PERSON_AND_ATTRIBUTE, PROP_DIRECT_ELIMINATION}
        /\ g.propositions[j].data.person = P}}

\* the values v for which P_v is the antecedent of an accepted Alibi Implication or
\* Direct Elimination for P
AntecedentValues(g, P) ==
    {g.propositions[k].data.value : k \in {j \in 1..Len(g.propositions) :
        /\ g.propositions[j].data.prop_type \in AlibiTypes
        /\ g.propositions[j].data.person = P}}

DisjunctionTypes == {PROP_PERSON_OR_PERSON, PROP_COMPLEX_OR}

\* C28: with at least two names, a person P is missing from the suspect set exactly
\* when P is not the killer and some symbol P_v is asserted by an accepted Statement or
\* Direct Elimination and is the antecedent of an accepted Alibi Implication or Direct
\* Elimination for P; accepting a Disjunction or a Compound Disjunction leaves the
\* suspect set as it was.
C28_ExclusionCharacterised ==
    /\ []((AfterSetup(1) /\ Len(game[1].names) >= 2) =>
            \A P \in Range(game[1].names) :
               (P \notin Range(check_solution_count(game[1]).possible)) <=>
                  /\ P # game[1].killer
                  /\ AssertedValues(game[1], P) \cap AntecedentValues(game[1], P) # {})
    /\ [][(/\ pc[1] = "accept"
           /\ Len(game[1].names) >= 2
           /\ prop[1].data.prop_type \in DisjunctionTypes) =>
             /\ check_solution_count(game'[1]) = check_solution_count(game[1])
             /\ SuspectsOf(game'[1].names, game'[1].knowledge_base) =
                   SuspectsOf(game[1].names, game[1].knowledge_base)]_vars

\* an Alibi Implication for a person and then a Disjunction naming the same value of
\* that person are accepted: nothing asserts the value, both people are still suspects
C28_Witness ==
    /\ pc[1] = "loop"
    /\ Len(game[1].names) = 2
    /\ Len(game[1].propositions) = 2
    /\ game[1].propositions[1].data.prop_type = PROP_PERSON_ATTRIBUTE_IMPLIES_NOT_KILLER
    /\ game[1].propositions[2].data.prop_type = PROP_PERSON_OR_PERSON
    /\ game[1].propositions[1].data.person = game[1].propositions[2].data.person1
    /\ game[1].propositions[1].data.value = game[1].propositions[2].data.val1
    /\ possible[1].count = 2

\* C29: for a configuration with at least two names and no empty category, every call
\* of generate_proposition from the controller loop returns a candidate: at the loop
\* head at least two suspects remain, one of them not the killer, so no draw of any
\* template gives None or raises, and the attempt goes on to the oracle.
C29_EveryAttemptYieldsCandidate ==
    /\ []((ValidConfig(config[1]) /\ pc[1] = "loop" /\ attempts[1] < max_attempts[1]) =>
            /\ check_solution_count(game[1]).count >= 2
            /\ InnocentSuspectsOf(game[1]) # {}
            /\ \A u \in GenerateChoices(game[1]) :
                  generate_proposition(game[1], u).out.tag = "prop")
    /\ []((ValidConfig(config[1]) /\ AfterSetup(1)) =>
            /\ pc[1] # "raised"
            /\ attempts[1] >= 1 => prop[1].tag = "prop")
    /\ [][(ValidConfig(config[1]) /\ GenerateStep(1)) => pc'[1] = "oracle"]_vars

\* the loop head before the second attempt: an Alibi Implication was accepted, both
\* people are still suspects and a direct elimination can be drawn
C29_Witness ==
    /\ pc[1] = "loop"
    /\ ValidConfig(config[1])
    /\ attempts[1] = 1
    /\ max_attempts[1] = 2
    /\ Len(game[1].propositions) = 1
    /\ game[1].propositions[1].data.prop_type = PROP_PERSON_ATTRIBUTE_IMPLIES_NOT_KILLER
    /\ possible[1].count = 2
    /\ \E u \in DirectChoices(game[1]) : generate_proposition(game[1], u).out.tag = "prop"

\* the suspect count of the knowledge base built from the base clauses and the first k
\* accepted propositions of game g
CountAfter(g, k) ==
    check_solution_count(
        [g EXCEPT !.knowledge_base = SubSeq(@, 1, BaseClauses(Len(g.names)) + k)]).count

\* C30 (as claimed): the controller stops at the first convergence.  In every state
\* after setup the suspect count is at least 2 for the knowledge base built from every
\* strict prefix of the accepted propositions (no proposition is accepted once the
\* count is 1), and in a converged game the count is exactly 1 after the last one.
C30_StopsAtFirstConvergence ==
    AfterSetup(1) =>
        /\ \A k \in 0..(Len(game[1].propositions) - 1) : CountAfter(game[1], k) >= 2
        /\ pc[1] = "converged" =>
              /\ Len(game[1].propositions) >= 1
              /\ CountAfter(game[1], Len(game[1].propositions)) = 1
              /\ possible[1].count = 1

====
